---- MODULE Spec2Model ----
(***************************************************************************)
(* The hot-key cache of zeppeto: HotCache (db/hot_cache.cc) over a         *)
(* HotSkipList (db/hot_skiplist.h) and a std::unordered_map.               *)
(*                                                                         *)
(* Pointers are natural numbers: a Node* is an index into `node`, a value  *)
(* Slice* an index into `slice`; 0 is the null pointer.  Byte strings are  *)
(* sequences of small naturals.  A read past the end of a malloc'ed key    *)
(* buffer (HotSkipList::Compare) yields bytes the program never wrote:     *)
(* each call draws them from HeapBytes.                                    *)
(***************************************************************************)
EXTENDS Integers, Sequences, FiniteSets, TLC

\* ------------------------------------------------------------ bounds
MaxKeyLen == 2
MaxOps == 3
MaxListOps == 4
MaxRWOps == 3
MaxDrawnHeight == 2
MaxTwiceOps == 3
MaxIterKeys == 3
MaxIterOps == 4
MaxTagOps == 3
MaxInsOps == 3
MaxReads == 1

\* ------------------------------------------------- program constants
kMaxHeight == 12
kTypeDeletion == 0
kTypeValue == 1
nullptr == 0
head_ == 1
\* what a forward slot holds before its first store
uninit == -1

\* ------------------------------------------------------ input domains
KeyBytes == {1, 2}
HeapBytes == {0, 1, 2, 3}
Values == {<<1>>, <<2>>, <<1, 2>>}
HotKeys == {<<1>>, <<1, 2>>, <<2>>}
Seqs == {1, 2}
PairValues == {<<1, 1>>, <<2, 2>>}
Types == {kTypeDeletion, kTypeValue}

RECURSIVE SeqsUpTo(_, _)
SeqsUpTo(S, n) ==
  IF n = 0 THEN {<<>>}
  ELSE LET shorter == SeqsUpTo(S, n - 1)
       IN  shorter \cup {Append(s, b) : s \in {t \in shorter : Len(t) = n - 1}, b \in S}

Keys == SeqsUpTo(KeyBytes, MaxKeyLen) \ {<<>>}
\* what lies behind a key buffer, as far as a comparison can read
Garbage == {g \in SeqsUpTo(HeapBytes, MaxKeyLen - 1) : Len(g) = MaxKeyLen - 1}

Min(a, b) == IF a < b THEN a ELSE b

\* ------------------------------------------------------- util/coding
RECURSIVE EncodeFixedN(_, _)
EncodeFixedN(v, n) ==
  IF n = 0 THEN <<>> ELSE <<v % 256>> \o EncodeFixedN(v \div 256, n - 1)

EncodeFixed64(v) == EncodeFixedN(v, 8)

\* (s << 8) | type
PackTag(s, type) == s * 256 + type

\* ------------------------------------------------------------- state
VARIABLES
  node,         \* node[p]: the Node at pointer p; node[head_] is the sentinel
  slice,        \* slice[q]: the value Slice at pointer q and whether it was freed
  max_height_,
  hash_map_,    \* a function from user keys to Node pointers
  bytes_, put_cnt_, hit_cnt_,
  crashed,      \* the process died on a null dereference
  nCalls,       \* operations started so far (the host's sequence number)
  nUpdate,      \* UpdateIfExist calls started
  nPresent,     \* ... of which the key was linked in the list at call time
  promoted,     \* user keys handed to InsertFromCompaction so far
  repeated,     \* some InsertFromCompaction repeated a user key
  last,         \* the last call: its arguments and what it returned
  upd,          \* the writer inside UpdateIfExist, when its steps are interleaved
  rd,           \* a reader of a node's value: the pointer it loaded
  ins,          \* the writer inside Insert, when its stores are interleaved
  lr,           \* a reader of the list beside the writer: a search or a scan
  it,           \* an Iterator: its node_ and the call that set it
  tr            \* a reader of a node's tag, value and tag again

vars == <<node, slice, max_height_, hash_map_, bytes_, put_cnt_, hit_cnt_,
          crashed, nCalls, nUpdate, nPresent, promoted, repeated, last, upd, rd, ins, lr, it, tr>>

\* --------------------------------------------------------- skip list
\* byte i (from 1) of the buffer holding s, g lying behind it
ByteAt(s, g, i) == IF i <= Len(s) THEN s[i] ELSE g[i - Len(s)]

\* memcmp(a, b, n) from byte i on; a is never read past its end here
RECURSIVE Memcmp(_, _, _, _, _)
Memcmp(a, b, gb, n, i) ==
  IF i > n THEN 0
  ELSE IF a[i] < ByteAt(b, gb, i) THEN -1
  ELSE IF a[i] > ByteAt(b, gb, i) THEN 1
  ELSE Memcmp(a, b, gb, n, i + 1)

Compare(a, b, gb) == Memcmp(a, b, gb, Len(a), 1)

Equal(a, b, gb) == Compare(a, b, gb) = 0

KeyIsAfterNode(nd, k, gk, n) == n # nullptr /\ Compare(nd[n].key, k, gk) < 0

Next_(nd, x, level) == nd[x].next_[level + 1]

\* levels are 0-based as in the source; prev is a function on 0..kMaxHeight-1
RECURSIVE FindGE(_, _, _, _, _, _)
FindGE(nd, k, gk, x, level, prev) ==
  LET next == Next_(nd, x, level)
  IN  IF KeyIsAfterNode(nd, k, gk, next)
      THEN FindGE(nd, k, gk, next, level, prev)
      ELSE LET prev2 == [prev EXCEPT ![level] = x]
           IN  IF level = 0 THEN [ret |-> next, prev |-> prev2]
               ELSE FindGE(nd, k, gk, x, level - 1, prev2)

NoPrev == [i \in 0..(kMaxHeight - 1) |-> nullptr]

FindGreaterOrEqual(nd, mh, k, gk) == FindGE(nd, k, gk, head_, mh - 1, NoPrev)

\* FindLessThan(key) from node x at `level`; gk lies behind key's buffer
RECURSIVE FindLT(_, _, _, _, _)
FindLT(nd, k, gk, x, level) ==
  LET next == Next_(nd, x, level)
  IN  IF next = nullptr \/ Compare(nd[next].key, k, gk) >= 0
      THEN IF level = 0 THEN x ELSE FindLT(nd, k, gk, x, level - 1)
      ELSE FindLT(nd, k, gk, next, level)

FindLessThan(nd, mh, k, gk) == FindLT(nd, k, gk, head_, mh - 1)

RECURSIVE FindLastFrom(_, _, _)
FindLastFrom(nd, x, level) ==
  LET next == Next_(nd, x, level)
  IN  IF next = nullptr
      THEN IF level = 0 THEN x ELSE FindLastFrom(nd, x, level - 1)
      ELSE FindLastFrom(nd, next, level)

FindLast(nd, mh) == FindLastFrom(nd, head_, mh - 1)

RandomHeight == 1..Min(MaxDrawnHeight, kMaxHeight)

NewNode(k, v, t, height) ==
  [key |-> k, val_ |-> v, tag_ |-> t, next_ |-> [i \in 1..height |-> nullptr]]

\* the loop without its first store: x's own slots stay null
RECURSIVE LinkNoSuccessor(_, _, _, _, _)
LinkNoSuccessor(nd, x, prev, height, i) ==
  IF i >= height THEN nd
  ELSE LinkNoSuccessor([nd EXCEPT ![prev[i]].next_[i + 1] = x], x, prev, height, i + 1)

\* the loop of Insert: link x at levels i..height-1
RECURSIVE Link(_, _, _, _, _)
Link(nd, x, prev, height, i) ==
  IF i >= height THEN nd
  ELSE LET p  == prev[i]
           n1 == [nd EXCEPT ![x].next_[i + 1] = nd[p].next_[i + 1]]
           n2 == [n1 EXCEPT ![p].next_[i + 1] = x]
       IN  Link(n2, x, prev, height, i + 1)

\* Insert without its duplicate check (the assert the source commented out,
\* and nothing in its place)
InsertAtNoDupCheck(nd, mh, k, v, t, height, f, gx) ==
  LET prev == [i \in 0..(kMaxHeight - 1) |->
                 IF i >= mh /\ i < height THEN head_ ELSE f.prev[i]]
      mh2  == IF height > mh THEN height ELSE mh
      p    == Len(nd) + 1
      nd2  == Append(nd, NewNode(k, v, t, height))
  IN  [ret |-> p, node |-> Link(nd2, p, prev, height, 0), max_height_ |-> mh2]

\* Insert(key, value, tag) once FindGreaterOrEqual has returned f:
\* [ret, node, max_height_]; gx lies behind the key buffer of the node f.ret
InsertAt(nd, mh, k, v, t, height, f, gx) ==
  LET x == f.ret
  IN  IF ~(x = nullptr \/ ~Equal(k, nd[x].key, gx))
      THEN [ret |-> nullptr, node |-> nd, max_height_ |-> mh]
      ELSE LET prev == [i \in 0..(kMaxHeight - 1) |->
                          IF i >= mh /\ i < height THEN head_ ELSE f.prev[i]]
               mh2  == IF height > mh THEN height ELSE mh
               p    == Len(nd) + 1
               nd2  == Append(nd, NewNode(k, v, t, height))
           IN  [ret |-> p, node |-> Link(nd2, p, prev, height, 0), max_height_ |-> mh2]

\* gk lies behind key's own buffer
Insert(nd, mh, k, v, t, height, gk, gx) ==
  InsertAt(nd, mh, k, v, t, height, FindGreaterOrEqual(nd, mh, k, gk), gx)

\* every way one Insert call can end, over what lies behind the buffers it
\* reads past: the set {Insert(.., gk, gx) : gk, gx \in Garbage}
InsertOutcomes(nd, mh, k, v, t, height) ==
  UNION {{InsertAt(nd, mh, k, v, t, height, f, gx) : gx \in Garbage} :
           f \in {FindGreaterOrEqual(nd, mh, k, gk) : gk \in Garbage}}

\* ----------------------------------------------------------- HotCache
Idle == [pc |-> "idle"]

Init ==
  /\ node = <<NewNode(<<>>, nullptr, <<>>, kMaxHeight)>>
  /\ slice = <<>>
  /\ max_height_ = 1
  /\ hash_map_ = <<>>
  /\ bytes_ = 0 /\ put_cnt_ = 0 /\ hit_cnt_ = 0
  /\ crashed = FALSE
  /\ nCalls = 0 /\ nUpdate = 0 /\ nPresent = 0
  /\ promoted = {} /\ repeated = FALSE
  /\ last = [op |-> "none"]
  /\ upd = Idle
  /\ rd = Idle
  /\ ins = Idle
  /\ lr = Idle
  /\ it = Idle
  /\ tr = Idle

\* the nodes linked at level l, in list order
RECURSIVE Chain(_, _, _)
Chain(nd, x, l) ==
  IF x = nullptr THEN <<>> ELSE <<x>> \o Chain(nd, nd[x].next_[l + 1], l)

Level(nd, l) == Chain(nd, nd[head_].next_[l + 1], l)

Range(s) == {s[i] : i \in DOMAIN s}

Linked0 == Range(Level(node, 0))

\* a lookup that takes keys for equal when their first bytes are
HashFindFirstByte(map, k) ==
  IF \E x \in DOMAIN map : x[1] = k[1]
  THEN map[CHOOSE x \in DOMAIN map : x[1] = k[1]]
  ELSE nullptr

\* hash_map_->find(key.ToString()): the mapped node, nullptr for end()
HashFind(map, k) == IF k \in DOMAIN map THEN map[k] ELSE nullptr

\* unordered_map::insert: an existing entry stays
HashInsert(map, k, n) ==
  IF k \in DOMAIN map THEN map
  ELSE [x \in DOMAIN map \cup {k} |-> IF x = k THEN n ELSE map[x]]

\* the insert without the test of Insert's result
RecordedAlways(map, k, n) == HashInsert(map, k, n)

\* if (node != nullptr) hash_map_->insert({ikey->ToString(), node})
Recorded(map, k, n) == IF n # nullptr THEN HashInsert(map, k, n) ELSE map

\* new Slice(data, size) over a fresh buffer
NewSlice(value) == [data |-> value, freed |-> FALSE]

\* free((char*)q->data()); delete q
Release(sl, q) == [sl EXCEPT ![q].freed = TRUE]

\* a size test that reads the wrong Slice of the node: the tag's
SameSizeAsTag(nd, sl, n, value) == Len(value) = Len(nd[n].tag_)

\* value_size == node->val_->size()
SameSize(nd, sl, n, value) == Len(value) = Len(sl[nd[n].val_].data)

\* EncodeFixed64((char*)node->tag_->data(), (s << 8) | type)
SetTag(nd, n, s, type) == [nd EXCEPT ![n].tag_ = EncodeFixed64(PackTag(s, type))]

\* the facade's host: one writer, one call at a time, each with the next
\* sequence number
NextSeq == nCalls + 1

InsertFromCompaction(k, type, value, height) ==
  LET key       == k \o EncodeFixed64(PackTag(NextSeq, type))
      ikey_size == Len(key) - 8
      val_size  == Len(value)
      ikey      == SubSeq(key, 1, ikey_size)
      tag       == SubSeq(key, ikey_size + 1, ikey_size + 8)
      val       == Len(slice) + 1
  IN  /\ ~crashed /\ upd = Idle
      /\ bytes_' = bytes_ + ikey_size + val_size + 8
      /\ \E r \in InsertOutcomes(node, max_height_, ikey, val, tag, height) :
           /\ node' = r.node
           /\ max_height_' = r.max_height_
           /\ hash_map_' = Recorded(hash_map_, ikey, r.ret)
           /\ last' = [op |-> "promote", key |-> ikey, value |-> value, tag |-> tag,
                       ret |-> r.ret, present |-> \E n \in Linked0 : node[n].key = ikey]
      /\ slice' = Append(slice, NewSlice(value))
      /\ nCalls' = nCalls + 1
      /\ promoted' = promoted \cup {ikey}
      /\ repeated' = (repeated \/ ikey \in promoted)
      /\ UNCHANGED <<put_cnt_, hit_cnt_, crashed, nUpdate, nPresent, upd, rd, ins, lr, it, tr>>

\* the bookkeeping of the calls made, for an UpdateIfExist call
Called(s, type, k, value, ret) ==
  LET present == \E n \in Linked0 : node[n].key = k
  IN  /\ nCalls' = nCalls + 1
      /\ nUpdate' = nUpdate + 1
      /\ nPresent' = nPresent + (IF present THEN 1 ELSE 0)
      /\ last' = [op |-> "update", key |-> k, value |-> value, type |-> type,
                  tag |-> EncodeFixed64(PackTag(s, type)),
                  ret |-> ret, present |-> present,
                  again |-> /\ last.op = "update" /\ last.ret = "true"
                            /\ last.key = k /\ last.value = value
                            /\ last.tag = EncodeFixed64(PackTag(s, type))]
      /\ UNCHANGED <<promoted, repeated>>

UpdateIfExist(s, type, k, value) ==
  LET n          == HashFind(hash_map_, k)
      value_size == Len(value)
      tagged     == SetTag(node, n, s, type)
  IN  /\ ~crashed /\ upd = Idle
      /\ put_cnt_' = put_cnt_ + 1
      /\ IF n # nullptr
         THEN /\ hit_cnt_' = hit_cnt_ + 1
              /\ IF type = kTypeDeletion
                 THEN /\ node' = [tagged EXCEPT ![n].val_ = nullptr]
                      /\ UNCHANGED <<slice, bytes_, crashed>>
                      /\ Called(s, type, k, value, "true")
                 ELSE IF node[n].val_ = nullptr
                 THEN \* node->val_->size() through a null val_
                      /\ node' = tagged
                      /\ crashed' = TRUE
                      /\ UNCHANGED <<slice, bytes_>>
                      /\ Called(s, type, k, value, "crash")
                 ELSE IF SameSize(node, slice, n, value)
                 THEN /\ node' = tagged
                      /\ slice' = [slice EXCEPT ![node[n].val_].data = value]
                      /\ UNCHANGED <<bytes_, crashed>>
                      /\ Called(s, type, k, value, "true")
                 ELSE /\ bytes_' = bytes_ + value_size - Len(slice[node[n].val_].data)
                      /\ slice' = Append(Release(slice, node[n].val_), NewSlice(value))
                      /\ node' = [tagged EXCEPT ![n].val_ = Len(slice) + 1]
                      /\ UNCHANGED crashed
                      /\ Called(s, type, k, value, "true")
         ELSE /\ UNCHANGED <<node, slice, bytes_, hit_cnt_, crashed>>
              /\ Called(s, type, k, value, "false")
      /\ UNCHANGED <<max_height_, hash_map_, upd, rd, ins, lr, it, tr>>

\* ------------------------------------------------- the cache in use
Promote ==
  /\ nCalls < MaxOps
  /\ \E k \in HotKeys, type \in Types, value \in Values, height \in RandomHeight :
       InsertFromCompaction(k, type, value, height)

Update ==
  /\ nCalls < MaxOps
  /\ \E type \in Types, k \in HotKeys, value \in Values :
       UpdateIfExist(NextSeq, type, k, value)

Next == Promote \/ Update

Spec == Init /\ [][Next]_vars

\* ------------------------------- the skip list under many promotions
PromoteKeys ==
  /\ nCalls < MaxListOps
  /\ \E k \in Keys, height \in RandomHeight :
       InsertFromCompaction(k, kTypeValue, <<1>>, height)

UpdateKeys ==
  /\ nCalls < MaxListOps
  /\ \E k \in Keys, type \in Types :
       UpdateIfExist(NextSeq, type, k, <<2>>)

NextList == PromoteKeys \/ UpdateKeys

SpecList == Init /\ [][NextList]_vars

\* --------------------------------- an Iterator over a list that is built
\* calls made on the iterator so far
IterCalls == IF it = Idle THEN 0 ELSE it.calls

\* the iterator after a call: node_, the call and its argument, and, while
\* only Next has followed a SeekToFirst (scan), the keys read through key()
Positioned(n, op, arg, scan, run) ==
  [pc |-> "at", node_ |-> n, op |-> op, arg |-> arg, scan |-> scan, run |-> run,
   calls |-> IterCalls + 1]

KeyOf(n) == IF n = nullptr THEN <<>> ELSE <<node[n].key>>

IterFrame ==
  UNCHANGED <<node, slice, max_height_, hash_map_, bytes_, put_cnt_, hit_cnt_,
              crashed, nCalls, nUpdate, nPresent, promoted, repeated, last, upd,
              rd, ins, lr, tr>>

\* Iterator::Seek(target)
Seek(target) ==
  /\ IterCalls < MaxIterOps
  /\ \E n \in {FindGreaterOrEqual(node, max_height_, target, gk).ret : gk \in Garbage} :
       it' = Positioned(n, "Seek", target, FALSE, <<>>)
  /\ IterFrame

\* Iterator::SeekToFirst()
SeekToFirst ==
  /\ IterCalls < MaxIterOps
  /\ LET n == Next_(node, head_, 0)
     IN  it' = Positioned(n, "SeekToFirst", nullptr, TRUE, KeyOf(n))
  /\ IterFrame

\* Iterator::SeekToLast()
SeekToLast ==
  /\ IterCalls < MaxIterOps
  /\ LET n == FindLast(node, max_height_)
     IN  it' = Positioned(IF n = head_ THEN nullptr ELSE n, "SeekToLast", nullptr,
                          FALSE, <<>>)
  /\ IterFrame

\* Iterator::Next(), on a valid iterator
IterNext ==
  /\ IterCalls < MaxIterOps
  /\ it # Idle /\ it.node_ # nullptr
  /\ LET n == Next_(node, it.node_, 0)
     IN  it' = Positioned(n, "Next", it.node_, it.scan,
                          IF it.scan THEN it.run \o KeyOf(n) ELSE <<>>)
  /\ IterFrame

\* Iterator::Prev(), on a valid iterator
IterPrev ==
  /\ IterCalls < MaxIterOps
  /\ it # Idle /\ it.node_ # nullptr
  /\ \E n \in {FindLessThan(node, max_height_, node[it.node_].key, gk) : gk \in Garbage} :
       it' = Positioned(IF n = head_ THEN nullptr ELSE n, "Prev", it.node_,
                        FALSE, <<>>)
  /\ IterFrame

\* the list is built before the iterator is used
PromoteIter ==
  /\ it = Idle /\ nCalls < MaxIterKeys
  /\ \E k \in Keys, height \in RandomHeight :
       InsertFromCompaction(k, kTypeValue, <<1>>, height)

NextIter ==
  \/ PromoteIter
  \/ \E target \in Keys : Seek(target)
  \/ SeekToFirst \/ SeekToLast \/ IterNext \/ IterPrev

SpecIter == Init /\ [][NextIter]_vars

\* ------------- a host that passes a sequence number again (a retried write)
PromoteOnce ==
  /\ nCalls < MaxTwiceOps
  /\ \E k \in HotKeys, value \in Values, height \in RandomHeight :
       InsertFromCompaction(k, kTypeValue, value, height)

UpdateAt ==
  /\ nCalls < MaxTwiceOps
  /\ \E s \in Seqs, type \in Types, k \in HotKeys, value \in Values :
       UpdateIfExist(s, type, k, value)

NextTwice == PromoteOnce \/ UpdateAt

SpecTwice == Init /\ [][NextTwice]_vars

\* ------------------- UpdateIfExist step by step, beside a value reader
Returned(ret) == last' = [last EXCEPT !.ret = ret]

\* lines 19-25: the lookup, the counters, the tag
UpdBegin(s, type, k, value) ==
  LET n == HashFind(hash_map_, k)
  IN  /\ ~crashed /\ upd = Idle
      /\ put_cnt_' = put_cnt_ + 1
      /\ IF n # nullptr
         THEN /\ hit_cnt_' = hit_cnt_ + 1
              /\ node' = SetTag(node, n, s, type)
              /\ upd' = [pc |-> "tagged", n |-> n, type |-> type, value |-> value]
              /\ Called(s, type, k, value, "pending")
         ELSE /\ UNCHANGED <<hit_cnt_, node, upd>>
              /\ Called(s, type, k, value, "false")
      /\ UNCHANGED <<slice, max_height_, hash_map_, bytes_, crashed, rd, ins, lr, it, tr>>

\* lines 27-32: the branch on the type and on the value's size
UpdValue ==
  LET n == upd.n
  IN  /\ ~crashed /\ upd.pc = "tagged"
      /\ IF upd.type = kTypeDeletion
         THEN /\ node' = [node EXCEPT ![n].val_ = nullptr]
              /\ upd' = Idle
              /\ Returned("true")
              /\ UNCHANGED <<slice, bytes_, crashed>>
         ELSE IF node[n].val_ = nullptr
         THEN /\ crashed' = TRUE
              /\ Returned("crash")
              /\ UNCHANGED <<node, slice, bytes_, upd>>
         ELSE IF SameSize(node, slice, n, upd.value)
         THEN /\ slice' = [slice EXCEPT ![node[n].val_].data = upd.value]
              /\ upd' = Idle
              /\ Returned("true")
              /\ UNCHANGED <<node, bytes_, crashed>>
         ELSE /\ bytes_' = bytes_ + Len(upd.value) - Len(slice[node[n].val_].data)
              /\ upd' = [upd EXCEPT !.pc = "resize"]
              /\ UNCHANGED <<node, slice, crashed, last>>
      /\ UNCHANGED <<max_height_, hash_map_, put_cnt_, hit_cnt_, nCalls, nUpdate,
                     nPresent, promoted, repeated, rd, ins, lr, it, tr>>

\* lines 33-34: the old buffer and its Slice go back to the allocator
UpdFree ==
  /\ ~crashed /\ upd.pc = "resize"
  /\ slice' = Release(slice, node[upd.n].val_)
  /\ upd' = [upd EXCEPT !.pc = "freed"]
  /\ UNCHANGED <<node, max_height_, hash_map_, bytes_, put_cnt_, hit_cnt_, crashed,
                 nCalls, nUpdate, nPresent, promoted, repeated, last, rd, ins, lr, it, tr>>

\* lines 36-38: the new buffer, and the node's value slot set to it
UpdAssign ==
  /\ ~crashed /\ upd.pc = "freed"
  /\ slice' = Append(slice, NewSlice(upd.value))
  /\ node' = [node EXCEPT ![upd.n].val_ = Len(slice) + 1]
  /\ upd' = Idle
  /\ Returned("true")
  /\ UNCHANGED <<max_height_, hash_map_, bytes_, put_cnt_, hit_cnt_, crashed,
                 nCalls, nUpdate, nPresent, promoted, repeated, rd, ins, lr, it, tr>>

\* a reader loads the value pointer of a node it reached in the list ...
RdLoad ==
  /\ ~crashed /\ rd = Idle
  /\ \E n \in Linked0 :
       /\ node[n].val_ # nullptr
       /\ rd' = [pc |-> "loaded", ptr |-> node[n].val_]
  /\ UNCHANGED <<node, slice, max_height_, hash_map_, bytes_, put_cnt_, hit_cnt_,
                 crashed, nCalls, nUpdate, nPresent, promoted, repeated, last, upd,
                 ins, lr, it, tr>>

\* ... and then reads the Slice and the bytes behind it
RdDeref ==
  /\ ~crashed /\ rd.pc = "loaded"
  /\ rd' = IF slice[rd.ptr].freed THEN [rd EXCEPT !.pc = "use_after_free"] ELSE Idle
  /\ UNCHANGED <<node, slice, max_height_, hash_map_, bytes_, put_cnt_, hit_cnt_,
                 crashed, nCalls, nUpdate, nPresent, promoted, repeated, last, upd,
                 ins, lr, it, tr>>

PromoteRW ==
  /\ nCalls < MaxRWOps
  /\ \E k \in HotKeys, value \in Values, height \in RandomHeight :
       InsertFromCompaction(k, kTypeValue, value, height)

UpdateRW ==
  /\ nCalls < MaxRWOps
  /\ \E type \in Types, k \in HotKeys, value \in Values :
       UpdBegin(NextSeq, type, k, value)

NextRW ==
  PromoteRW \/ UpdateRW \/ UpdValue \/ UpdFree \/ UpdAssign \/ RdLoad \/ RdDeref

SpecRW == Init /\ [][NextRW]_vars

\* ---------------- Insert store by store, beside a reader of the list
\* new Node(key, value, tag, height): next_ is malloc'ed, its slots not set
AllocNode(k, v, t, height) ==
  [key |-> k, val_ |-> v, tag_ |-> t, next_ |-> [i \in 1..height |-> uninit]]

\* a loop that runs from the top level down
LoopLevelDown(j, height) == height - 1 - j

\* for (int i = 0; i < height; i++): the level of iteration j (from 0)
LoopLevel(j, height) == j

\* the two stores in the order that publishes x before its slot is set
PublishFirst == <<"publish", "init">>

\* the two stores of one iteration, in program order
LinkSteps == <<"init", "publish">>

\* a store of the height drawn, whatever max_height_ holds
StoreHeight(mh, height) == height

\* if (height > GetMaxHeight()) max_height_.store(height)
RaiseHeight(mh, height) == IF height > mh THEN height ELSE mh

\* what Insert does up to the NewNode of line 367, over what lies behind the
\* buffers its comparisons read past: a duplicate, or the prev[] to link at
InsertPlans(nd, mh, k, height) ==
  UNION {{IF f.ret # nullptr /\ Equal(k, nd[f.ret].key, gx)
          THEN [dup |-> TRUE]
          ELSE [dup |-> FALSE,
                prev |-> [i \in 0..(kMaxHeight - 1) |->
                            IF i >= mh /\ i < height THEN head_ ELSE f.prev[i]]] :
          gx \in Garbage} :
         f \in {FindGreaterOrEqual(nd, mh, k, gk) : gk \in Garbage}}

InsFrame ==
  UNCHANGED <<put_cnt_, hit_cnt_, crashed, nUpdate, nPresent, upd, rd, lr, it, tr>>

\* InsertFromCompaction up to line 75 and Insert up to line 367
InsBegin(k, type, value, height) ==
  LET key  == k \o EncodeFixed64(PackTag(NextSeq, type))
      ikey == SubSeq(key, 1, Len(key) - 8)
      tag  == SubSeq(key, Len(key) - 7, Len(key))
      val  == Len(slice) + 1
      x    == Len(node) + 1
  IN  /\ ~crashed /\ upd = Idle /\ ins = Idle
      /\ bytes_' = bytes_ + Len(ikey) + Len(value) + 8
      /\ slice' = Append(slice, NewSlice(value))
      /\ nCalls' = nCalls + 1
      /\ promoted' = promoted \cup {ikey}
      /\ repeated' = (repeated \/ ikey \in promoted)
      /\ \E plan \in InsertPlans(node, max_height_, ikey, height) :
           IF plan.dup
           THEN /\ UNCHANGED <<node, max_height_, ins>>
                /\ last' = [op |-> "promote", key |-> ikey, value |-> value,
                            tag |-> tag, ret |-> nullptr,
                            present |-> \E n \in Linked0 : node[n].key = ikey]
           ELSE /\ max_height_' = RaiseHeight(max_height_, height)
                /\ node' = Append(node, AllocNode(ikey, val, tag, height))
                /\ ins' = [pc |-> "link", x |-> x, prev |-> plan.prev, key |-> ikey,
                           height |-> height, j |-> 0, st |-> 1]
                /\ last' = [op |-> "promote", key |-> ikey, value |-> value,
                            tag |-> tag, ret |-> x,
                            present |-> \E n \in Linked0 : node[n].key = ikey]
      /\ UNCHANGED hash_map_
      /\ InsFrame

\* the level the writer is linking
InsLevel == LoopLevel(ins.j, ins.height)

\* after a store: the next store, the next iteration, or the return of x
\* and the insert into hash_map_ (hot_cache.cc, lines 77-79)
InsAdvance ==
  IF ins.st < Len(LinkSteps)
  THEN ins' = [ins EXCEPT !.st = ins.st + 1] /\ UNCHANGED hash_map_
  ELSE IF ins.j + 1 < ins.height
  THEN ins' = [ins EXCEPT !.j = ins.j + 1, !.st = 1] /\ UNCHANGED hash_map_
  ELSE ins' = Idle /\ hash_map_' = Recorded(hash_map_, ins.key, ins.x)

\* line 371: x->NoBarrier_SetNext(i, prev[i]->NoBarrier_Next(i))
InsInit ==
  /\ ~crashed /\ ins.pc = "link" /\ LinkSteps[ins.st] = "init"
  /\ node' = [node EXCEPT ![ins.x].next_[InsLevel + 1] =
                             node[ins.prev[InsLevel]].next_[InsLevel + 1]]
  /\ InsAdvance
  /\ UNCHANGED <<slice, max_height_, bytes_, nCalls, promoted, repeated, last>>
  /\ InsFrame

\* line 372: prev[i]->SetNext(i, x)
InsPublish ==
  /\ ~crashed /\ ins.pc = "link" /\ LinkSteps[ins.st] = "publish"
  /\ node' = [node EXCEPT ![ins.prev[InsLevel]].next_[InsLevel + 1] = ins.x]
  /\ InsAdvance
  /\ UNCHANGED <<slice, max_height_, bytes_, nCalls, promoted, repeated, last>>
  /\ InsFrame

\* the values max_height_ has held: 1, then the running maximum of the
\* heights of the nodes allocated
RECURSIVE HeldHeights(_, _, _)
HeldHeights(nd, n, mh) ==
  IF n > Len(nd) THEN {mh}
  ELSE {mh} \cup HeldHeights(nd, n + 1, RaiseHeight(mh, Len(nd[n].next_)))

\* GetMaxHeight(): a relaxed load, which may return a value held earlier
GetMaxHeight == HeldHeights(node, head_ + 1, 1)

ReadsDone == IF lr = Idle THEN 0 ELSE lr.reads

LrFrame ==
  UNCHANGED <<node, slice, max_height_, hash_map_, bytes_, put_cnt_, hit_cnt_,
              crashed, nCalls, nUpdate, nPresent, promoted, repeated, last, upd,
              rd, ins, it, tr>>

\* what FindGreaterOrEqual(key) returns on level 0 alone of the list as it is
Level0Answer(k, gk) == FindGE(node, k, gk, head_, 0, NoPrev).ret

\* Contains(key) starts: FindGreaterOrEqual, lines 268-269.  `had`: Insert
\* had returned a node for this key; `idle`: no Insert was running
ContainsBegin(k) ==
  /\ ~crashed /\ lr.pc \in {"idle", "returned", "scanned"} /\ ReadsDone < MaxReads
  /\ \E h \in GetMaxHeight, gk \in Garbage :
       lr' = [pc |-> "search", key |-> k, gk |-> gk, x |-> head_, level |-> h - 1,
              from |-> h, steps |-> 0, ok |-> {Level0Answer(k, gk)},
              had |-> k \in DOMAIN hash_map_, idle |-> ins = Idle,
              reads |-> ReadsDone + 1]
  /\ LrFrame

\* one turn of the loop of FindGreaterOrEqual (lines 271-283), and on its
\* return the test of Contains (line 380)
ContainsStep ==
  /\ ~crashed /\ lr.pc = "search"
  /\ LET next == node[lr.x].next_[lr.level + 1]
         ok   == lr.ok \cup {Level0Answer(lr.key, lr.gk)}
     IN  IF next = uninit
         THEN lr' = [pc |-> "wild", reads |-> lr.reads]
         ELSE IF KeyIsAfterNode(node, lr.key, lr.gk, next)
         THEN lr' = [lr EXCEPT !.x = next, !.steps = lr.steps + 1, !.ok = ok]
         ELSE IF lr.level > 0
         THEN lr' = [lr EXCEPT !.level = lr.level - 1, !.steps = lr.steps + 1,
                               !.ok = ok]
         ELSE \E ret \in {next # nullptr /\ Equal(lr.key, node[next].key, gx) :
                            gx \in Garbage} :
                lr' = [pc |-> "returned", key |-> lr.key, found |-> next,
                       ret |-> ret, ok |-> ok, had |-> lr.had,
                       idle |-> lr.idle /\ ins = Idle, from |-> lr.from,
                       steps |-> lr.steps + 1, reads |-> lr.reads]
  /\ LrFrame

\* Iterator::SeekToFirst by the scanning reader
ScanFirst ==
  /\ ~crashed /\ lr.pc \in {"idle", "returned", "scanned"} /\ ReadsDone < MaxReads
  /\ LET n == node[head_].next_[1]
     IN  lr' = [pc |-> IF n = nullptr THEN "scanned" ELSE "scan", node_ |-> n,
                seen |-> KeyOf(n), reads |-> ReadsDone + 1]
  /\ LrFrame

\* Iterator::Next by the scanning reader, until the iterator is invalid
ScanNext ==
  /\ ~crashed /\ lr.pc = "scan"
  /\ LET n == node[lr.node_].next_[1]
     IN  IF n = uninit
         THEN lr' = [pc |-> "wild", reads |-> lr.reads]
         ELSE lr' = [pc |-> IF n = nullptr THEN "scanned" ELSE "scan", node_ |-> n,
                     seen |-> lr.seen \o KeyOf(n), reads |-> lr.reads]
  /\ LrFrame

PromoteIns ==
  /\ nCalls < MaxInsOps
  /\ \E k \in HotKeys, height \in RandomHeight : InsBegin(k, kTypeValue, <<1>>, height)

NextIns ==
  \/ PromoteIns \/ InsInit \/ InsPublish
  \/ \E k \in HotKeys : ContainsBegin(k)
  \/ ContainsStep \/ ScanFirst \/ ScanNext

SpecIns == Init /\ [][NextIns]_vars

\* ------------ same-length updates beside a reader of tag, value and tag
\* what a read of the n bytes at `old` can return while memcpy writes `new`
\* over them
Torn(old, new) ==
  {m \in [1..Len(old) -> HeapBytes] : \A i \in 1..Len(old) : m[i] \in {old[i], new[i]}}

\* the writer stands between the tag it wrote and the memcpy of line 30
Patching(n) ==
  /\ upd.pc = "tagged" /\ upd.n = n /\ upd.type # kTypeDeletion
  /\ node[n].val_ # nullptr /\ SameSize(node, slice, n, upd.value)

TrFrame ==
  UNCHANGED <<node, slice, max_height_, hash_map_, bytes_, put_cnt_, hit_cnt_,
              crashed, nCalls, nUpdate, nPresent, promoted, repeated, last, upd,
              rd, ins, lr, it>>

\* the reader decodes the tag of a node it reached
TrTag ==
  /\ tr = Idle
  /\ \E n \in Linked0 : tr' = [pc |-> "tag", n |-> n, t1 |-> node[n].tag_]
  /\ TrFrame

\* then copies the value bytes
TrValue ==
  /\ tr.pc = "tag" /\ node[tr.n].val_ # nullptr
  /\ LET data == slice[node[tr.n].val_].data
     IN  \E v \in (IF Patching(tr.n) THEN Torn(data, upd.value) ELSE {data}) :
           tr' = [pc |-> "value", n |-> tr.n, t1 |-> tr.t1, val |-> v]
  /\ TrFrame

\* then decodes the tag again; the call that wrote that tag, if it is the
\* writer's last call, passed the value `paired`
TrTagAgain ==
  /\ tr.pc = "value"
  /\ tr' = [pc |-> "done", n |-> tr.n, t1 |-> tr.t1, val |-> tr.val,
            t2 |-> node[tr.n].tag_,
            paired |-> IF last.tag = node[tr.n].tag_ /\ last.key = node[tr.n].key
                       THEN <<last.value>> ELSE <<>>]
  /\ TrFrame

PromoteTag ==
  /\ nCalls < MaxTagOps
  /\ \E k \in HotKeys, value \in PairValues, height \in RandomHeight :
       InsertFromCompaction(k, kTypeValue, value, height)

UpdateTag ==
  /\ nCalls < MaxTagOps
  /\ \E k \in HotKeys, value \in PairValues :
       UpdBegin(NextSeq, kTypeValue, k, value)

NextTag == PromoteTag \/ UpdateTag \/ UpdValue \/ TrTag \/ TrValue \/ TrTagAgain

SpecTag == Init /\ [][NextTag]_vars

\* ---------------------------------------------------------- properties
\* a < b as byte strings: compare min(|a|, |b|) bytes, on a tie the shorter
\* is less
RECURSIVE LexLessFrom(_, _, _)
LexLessFrom(a, b, i) ==
  IF i > Min(Len(a), Len(b)) THEN Len(a) < Len(b)
  ELSE IF a[i] # b[i] THEN a[i] < b[i]
  ELSE LexLessFrom(a, b, i + 1)

LexLess(a, b) == LexLessFrom(a, b, 1)

IsProperPrefix(a, b) == Len(a) < Len(b) /\ SubSeq(b, 1, Len(a)) = a

KeysAt(l) == [i \in 1..Len(Level(node, l)) |-> node[Level(node, l)[i]].key]

Ascending(ks) == \A i \in 1..(Len(ks) - 1) : LexLess(ks[i], ks[i + 1])

Levels == 0..(kMaxHeight - 1)

NodesWithKey(k) == {n \in Linked0 : node[n].key = k}

\* some cached key is a proper prefix of another cached key
PrefixPairCached ==
  \E a \in DOMAIN hash_map_, b \in DOMAIN hash_map_ : IsProperPrefix(a, b)

\* C1: the hash map holds k -> n exactly when n is linked at level 0 with
\* key k: a mapped key maps to a linked node holding that key, and a linked
\* node's key is mapped to that very node
DualIndexCoherence ==
  /\ DOMAIN hash_map_ \subseteq Keys
  /\ \A k \in Keys :
       /\ k \in DOMAIN hash_map_ => hash_map_[k] \in NodesWithKey(k)
       /\ NodesWithKey(k) # {} =>
            k \in DOMAIN hash_map_ /\ NodesWithKey(k) = {hash_map_[k]}

\* C1 witness: promotions (one of them skipped) and an update hit have
\* completed on a cache holding a key and a proper prefix of it
CoherenceWitness ==
  /\ PrefixPairCached
  /\ Len(slice) > Len(node) - 1
  /\ last.op = "update" /\ last.ret = "true"

\* C2: after promotions of pairwise distinct user keys every level lists
\* its keys in strictly ascending lexicographic order
OrderedLevels ==
  ~repeated => \A l \in Levels : Ascending(KeysAt(l))

\* C3: at most one node per user key is linked at level 0
UniqueMembership ==
  \A k \in Keys : Cardinality(NodesWithKey(k)) <= 1

\* C3 witness: a cached key was promoted again, in a cache that holds a key
\* and a proper prefix of it
UniqueWitness ==
  /\ last.op = "promote" /\ last.present /\ last.ret = nullptr
  /\ PrefixPairCached

\* C4: after promote(k ++ t, v) of a key k no cached key is byte-equal to,
\* the hash map maps k to a node holding (k, v, t)
PromoteRoundTrip ==
  (last.op = "promote" /\ ~last.present) =>
    LET n == HashFind(hash_map_, last.key)
    IN  /\ n # nullptr
        /\ node[n].key = last.key
        /\ node[n].tag_ = last.tag
        /\ node[n].val_ # nullptr
        /\ slice[node[n].val_].data = last.value

\* C5: no update crashes, and an update of a cached key returns true and
\* leaves its node linked with the call's tag, the value absent after a
\* Deletion and equal to the call's value otherwise
DeleteThenRevive ==
  /\ ~crashed
  /\ (last.op = "update" /\ last.present) =>
       /\ last.ret = "true"
       /\ \E n \in NodesWithKey(last.key) :
            /\ node[n].tag_ = last.tag
            /\ IF last.type = kTypeDeletion
               THEN node[n].val_ = nullptr
               ELSE /\ node[n].val_ # nullptr
                    /\ slice[node[n].val_].data = last.value

\* the entries that hold a value
Live == {n \in Linked0 : node[n].val_ # nullptr}

EntryBytes(n) == Len(node[n].key) + Len(slice[node[n].val_].data) + 8

RECURSIVE SumBytes(_)
SumBytes(S) ==
  IF S = {} THEN 0
  ELSE LET x == CHOOSE y \in S : TRUE IN EntryBytes(x) + SumBytes(S \ {x})

\* C6: the bytes counter is the sum over live entries of |key| + |value| + 8
BytesAccounting == bytes_ = SumBytes(Live)

\* C7: the put counter is the number of update calls made, the hit counter
\* the number of them whose key was linked in the list at call time
PutHitAccounting == put_cnt_ = nUpdate /\ hit_cnt_ = nPresent

\* C7 witness: a promotion, an update that missed and an update that hit
PutHitWitness == put_cnt_ = 2 /\ hit_cnt_ = 1 /\ nCalls = 3

\* C8: an update of a key that is not cached returns false, adds one to the
\* put counter and changes nothing else of the cache
UpdateMissFrame ==
  [][(nCalls' = nCalls + 1 /\ last'.op = "update" /\ ~last'.present) =>
       /\ last'.ret = "false"
       /\ put_cnt_' = put_cnt_ + 1
       /\ UNCHANGED <<hit_cnt_, bytes_, hash_map_, node, slice, max_height_>>]_vars

\* C8 witness: an update missed on a key that is a proper prefix of a cached
\* key
UpdateMissWitness ==
  /\ last.op = "update" /\ ~last.present /\ last.ret = "false"
  /\ \E b \in DOMAIN hash_map_ : IsProperPrefix(last.key, b)

\* every node ever created with key k
Allocated(k) == {n \in 1..Len(node) : n # head_ /\ node[n].key = k}

\* C9: a promotion of a cached key returns no node and leaves the nodes, the
\* hash map and the existing value buffers as they were; an update of the
\* key then writes its tag to the first node created for it
DuplicatePromotionSkips ==
  [][/\ (nCalls' = nCalls + 1 /\ last'.op = "promote" /\ last'.present) =>
          /\ last'.ret = nullptr
          /\ node' = node
          /\ hash_map_' = hash_map_
          /\ SubSeq(slice', 1, Len(slice)) = slice
     /\ (nCalls' = nCalls + 1 /\ last'.op = "update" /\ last'.present) =>
          /\ \A n \in Allocated(last'.key) : HashFind(hash_map_, last'.key) <= n
          /\ node'[HashFind(hash_map_, last'.key)].tag_ = last'.tag]_vars

\* C9 witness: a key was promoted twice and then updated
DuplicatePromotionWitness ==
  /\ repeated /\ Len(node) = 2 /\ Len(slice) >= 2
  /\ last.op = "update" /\ last.ret = "true"

\* C10: no reader dereferences a freed value buffer, no node's value slot
\* points at a freed buffer, and no value buffer is released while the
\* cache lives
SafeReclamation ==
  /\ rd.pc # "use_after_free"
  /\ \A n \in Linked0 : node[n].val_ # nullptr => ~slice[node[n].val_].freed
  /\ \A q \in 1..Len(slice) : ~slice[q].freed

\* C10: a reader has read through a pointer to a buffer the writer freed
ReaderUsesFreed == rd.pc = "use_after_free"

LexLessEq(a, b) == a = b \/ LexLess(a, b)

\* the linked node with the least key >= k, nullptr if there is none
LeastAtOrAfter(k) ==
  LET S == {n \in Linked0 : LexLessEq(k, node[n].key)}
  IN  IF S = {} THEN {nullptr}
      ELSE {n \in S : \A m \in S : LexLessEq(node[n].key, node[m].key)}

\* the linked node with the greatest key < k, nullptr if there is none
GreatestBefore(k) ==
  LET S == {n \in Linked0 : LexLess(node[n].key, k)}
  IN  IF S = {} THEN {nullptr}
      ELSE {n \in S : \A m \in S : LexLessEq(node[m].key, node[n].key)}

\* C13: Seek(target) leaves the iterator at the node with the least key >=
\* target, Prev at the node with the greatest key below the key it left
\* (both invalid if there is none), and SeekToFirst followed by Next until
\* invalid has read every inserted key once, in ascending order
IteratorPositioning ==
  it # Idle =>
    /\ it.op = "Seek" => it.node_ \in LeastAtOrAfter(it.arg)
    /\ it.op = "Prev" => it.node_ \in GreatestBefore(node[it.arg].key)
    /\ (it.scan /\ it.node_ = nullptr) =>
         /\ Ascending(it.run)
         /\ Range(it.run) = promoted

\* C11: whatever the writer's stores so far, the keys a scan from
\* SeekToFirst has read are strictly ascending and were all promoted, and
\* the scan never loads a slot that was not set
ConcurrentOrderedScan ==
  /\ lr.pc # "wild"
  /\ lr.pc \in {"scan", "scanned"} =>
       /\ Ascending(lr.seen)
       /\ Range(lr.seen) \subseteq promoted

\* C14: Contains(k) returns true if Insert had returned a node for k before
\* the call, and false if k was never handed to Insert
ContainsCorrect ==
  lr.pc = "returned" =>
    /\ lr.had => lr.ret
    /\ lr.key \notin promoted => ~lr.ret

\* the nodes linked at level l
LinkedAt(l) == Range(Level(node, l))

\* C17: in every state, between the stores of an Insert too, a node linked
\* at level l is linked at every level below l
LevelContainment ==
  \A l \in 1..(kMaxHeight - 1) : LinkedAt(l) \subseteq LinkedAt(l - 1)

\* C17 witness: the writer has linked a node of height 2 at level 0 and not
\* yet at level 1, in a list that holds another node
ContainmentWitness ==
  /\ ins.pc = "link" /\ ins.height = 2 /\ ins.j = 1 /\ ins.st = 1
  /\ ins.x \in LinkedAt(0) /\ ins.x \notin LinkedAt(1)
  /\ Cardinality(LinkedAt(0)) >= 2

\* the nodes a reader can reach from x along level l, x included; the walk
\* ends at a null slot and at a slot that was never set
RECURSIVE Reach(_, _, _)
Reach(nd, x, l) ==
  IF x = nullptr \/ x = uninit THEN {} ELSE {x} \cup Reach(nd, nd[x].next_[l + 1], l)

\* C18: every node a reader can reach at level l has its slots of levels
\* 0..l set; no reader has loaded a slot the writer has not set, and every
\* node a reader stands on is an allocated node
PublicationSafety ==
  /\ \A l \in Levels : \A n \in Reach(node, head_, l) :
       \A i \in 0..l : node[n].next_[i + 1] # uninit
  /\ lr.pc # "wild"
  /\ lr.pc = "search" => lr.x \in 1..Len(node) /\ lr.level < Len(node[lr.x].next_)
  /\ lr.pc = "scan" => lr.node_ \in 1..Len(node)

\* C18 witness: a search stands on the node the writer is still linking,
\* whose upper slot is not set yet
PublicationWitness ==
  /\ ins.pc = "link" /\ lr.pc = "search" /\ lr.x = ins.x
  /\ \E i \in 1..ins.height : node[ins.x].next_[i] = uninit

\* C20: max_height_ starts at 1, never decreases, never exceeds kMaxHeight
\* and is at least the height of every linked node; a search that started
\* from a value max_height_ held earlier returns, within as many turns as
\* there are nodes and levels, what a search of level 0 alone returned at
\* some moment of the call
MaxHeightDiscipline ==
  /\ max_height_ = 1
  /\ [](/\ max_height_ \in 1..kMaxHeight
        /\ \A n \in LinkedAt(0) : Len(node[n].next_) <= max_height_
        /\ lr.pc \in {"search", "returned"} => lr.steps <= Len(node) + lr.from
        /\ lr.pc = "returned" => lr.found \in lr.ok)
  /\ [][max_height_' >= max_height_]_vars

\* C20 witness: a search that started one level below max_height_ has
\* returned a node, and max_height_ was raised
StaleSearchWitness ==
  /\ lr.pc = "returned" /\ lr.from < max_height_ /\ lr.found # nullptr
  /\ max_height_ > 1

\* C19: when the reader's two tag reads agree, the value bytes it copied in
\* between are the value of the call that wrote that tag
TagGuardedRead ==
  (tr.pc = "done" /\ tr.t1 = tr.t2 /\ tr.paired # <<>>) => tr.val = tr.paired[1]

\* C19: the reader's two tag reads agreed on the tag of the writer's last call
TagsAgreed == tr.pc = "done" /\ tr.t1 = tr.t2 /\ tr.paired # <<>>

\* the type byte of an encoded tag: the low byte, stored first
TagType(t) == t[1]

\* C12: a linked node's value is absent exactly when the type byte of its
\* tag is Deletion
ValuePresence ==
  \A n \in Linked0 : (node[n].val_ = nullptr) <=> (TagType(node[n].tag_) = kTypeDeletion)

\* C15: a node linked at level 0 stays linked at level 0, no node goes away
\* and no node's key changes, whatever the step
NodePermanence ==
  [][/\ Linked0 \subseteq Range(Level(node', 0))
     /\ Len(node') >= Len(node)
     /\ \A n \in 1..Len(node) : node'[n].key = node[n].key]_vars

\* C15 witness: two nodes are linked, a key was promoted twice and the last
\* call was a Deletion update that hit
PermanenceWitness ==
  /\ Cardinality(Linked0) >= 2 /\ repeated
  /\ last.op = "update" /\ last.type = kTypeDeletion /\ last.ret = "true"

\* C16: a Value update that repeats, argument for argument, the update that
\* just returned true returns true, counts one put and one hit and changes
\* nothing else: no node, no buffer, not the bytes counter
UpdateIdempotence ==
  [][(nCalls' = nCalls + 1 /\ last'.op = "update" /\ last'.again
        /\ last'.type = kTypeValue) =>
       /\ last'.ret = "true"
       /\ node' = node /\ slice' = slice /\ bytes_' = bytes_
       /\ hash_map_' = hash_map_ /\ max_height_' = max_height_
       /\ put_cnt_' = put_cnt_ + 1 /\ hit_cnt_' = hit_cnt_ + 1]_vars

\* C16 witness: an update that replaced the value buffer was repeated
UpdateTwiceWitness ==
  /\ last.op = "update" /\ last.again /\ last.type = kTypeValue
  /\ Len(slice) = 2 /\ put_cnt_ = 2
====
